---------------------------- MODULE Spec2Model ----------------------------
(***************************************************************************)
(* A model of the IR-construction layer of the compiler: the type-identity *)
(* mangler (getTypeCodeName), the interface-value encoder                  *)
(* (parseMakeInterface, parseTypeAssert and the globals they intern in the *)
(* LLVM module) and the defer-frame builder (deferInitFunc, emitDefer,     *)
(* emitRunDefers) together with the execution of the code they emit.       *)
(*                                                                         *)
(* Three specifications share the module:                                  *)
(*   MangleSpec  applies getTypeCodeName to pairs of types;                *)
(*   ItfSpec     builds one LLVM module by boxing values and emitting type *)
(*               assertions, and runs the emitted assertion code;          *)
(*   DeferSpec   compiles the defer sites of one function, emits the       *)
(*               dispatcher and runs one activation of the function.       *)
(***************************************************************************)
EXTENDS Integers, Sequences, FiniteSets, TLC

VARIABLES
    \* ---- MangleSpec: two calls of getTypeCodeName
    mpc,        \* "start" | "first" | "done" | "panic"
    mt1, mt2,   \* the two argument types
    mn1, mn2,   \* the two returned identifiers ("" before the call returns)
    \* ---- ItfSpec: the LLVM module under construction and one assertion
    mod,        \* c.mod: the globals, in creation order; a global's address is its index
    funcs,      \* c.mod: the names of the functions declared in the module
    interfaceInvokeWrappers,    \* c.interfaceInvokeWrappers
    itf,        \* the interface value boxed last: [typecode, value]
    boxed,      \* what itf was boxed from: [typ, val] (NoType for the nil interface)
    boxings,    \* the boxings so far, in order: [typ, typecode]
    sigRefs,    \* every getMethodSignature call so far: [method, global]
    wrapperRefs,    \* every direct getInterfaceInvokeWrapper call so far: [f, fn]
    ta,         \* the assertion emitted last: [asserted, commaOk, code, ret]
    operand,    \* expr.X of that assertion: [itf, boxed]
    regs,       \* the values of the emitted code's SSA registers
    trace,      \* the instructions executed by the running assertion
    ipc,        \* "idle" | a block of the emitted code | "trap" | "panic"
    nops,       \* construction steps taken
    funcValues, \* the createFuncValue calls so far, in order: [fn, context, value]
    dpc,        \* "init" | "compile" | "rejected" | "entry" | "body" | a block of the dispatcher
    defers,     \* the defer statements of the function being compiled, in order
    frame,      \* the Frame of the function: its defer tables and entry block
    errors,     \* the diagnostics recorded by addError
    body,       \* the code emitted for the defer statements, in order
    rundefers,  \* the arms of the emitted dispatcher's switch
    deferPtr,   \* the head pointer of the activation (an address, Null = 0)
    allocas,    \* the defer frames of the activation, by address
    executed,   \* the defer statements executed so far, in order
    deferData,  \* the dispatcher's register deferData
    callback,   \* the dispatcher's register callback
    invoked     \* the calls made by the dispatcher: [frame, fn, params]

mangleVars == <<mpc, mt1, mt2, mn1, mn2>>
itfVars ==
    <<mod, funcs, interfaceInvokeWrappers, itf, boxed, boxings, sigRefs, wrapperRefs, ta,
      operand, regs, trace, ipc, nops, funcValues>>
deferVars ==
    <<dpc, defers, frame, errors, body, rundefers, deferPtr, allocas, executed, deferData, callback,
      invoked>>
vars == <<mangleVars, itfVars, deferVars>>

(***************************************************************************)
(* Bounds of the type universe.                                            *)
(***************************************************************************)
MaxArrayLen == 2
MaxFields == 2
\* Construction steps (boxings, assertions, signature requests) on one module.
MaxOps == 3
\* Defer statements in the function, and defer statements executed in one
\* activation.
MaxSites == 2
MaxExec == 3

(***************************************************************************)
(* go/types values.  One record shape for every constructor:               *)
(*   con     the dynamic type: basic, pointer, slice, array, chan, map,   *)
(*           struct, func (a signature), interface                         *)
(*   name    named.String() when the type is a *types.Named, else ""       *)
(*   kind    t.Kind() of a basic type                                      *)
(*   len     t.Len() of an array                                           *)
(*   elems   Elem() | <<Key(), Elem()>> | field types | parameter types |  *)
(*           the signatures of an interface's methods                      *)
(*   results result types of a signature                                   *)
(*   fnames  field names of a struct ("" for an embedded field), method    *)
(*           names of an interface                                         *)
(* con/elems/... describe t.Underlying() when name # "".                   *)
(***************************************************************************)
Ty(con, kind, len, elems, results, fnames) ==
    [con |-> con, name |-> "", kind |-> kind, len |-> len, elems |-> elems,
     results |-> results, fnames |-> fnames]

Basic(kind) == Ty("basic", kind, 0, <<>>, <<>>, <<>>)
Pointer(e) == Ty("pointer", "", 0, <<e>>, <<>>, <<>>)
Slice(e) == Ty("slice", "", 0, <<e>>, <<>>, <<>>)
Chan(e) == Ty("chan", "", 0, <<e>>, <<>>, <<>>)
Array(n, e) == Ty("array", "", n, <<e>>, <<>>, <<>>)
Map(k, e) == Ty("map", "", 0, <<k, e>>, <<>>, <<>>)
Struct(fields, names) == Ty("struct", "", 0, fields, <<>>, names)
Signature(params, results) == Ty("func", "", 0, params, results, <<>>)
Interface(sigs, names) == Ty("interface", "", 0, sigs, <<>>, names)
Named(qname, underlying) == [underlying EXCEPT !.name = qname]
\* t.Underlying()
Underlying(t) == [t EXCEPT !.name = ""]

\* strings.Join
RECURSIVE Join(_, _)
Join(strs, sep) ==
    IF strs = <<>> THEN ""
    ELSE IF Len(strs) = 1 THEN strs[1]
    ELSE strs[1] \o sep \o Join(Tail(strs), sep)

\* The basic kinds getTypeCodeName has a case for, with the string of each.
BasicKindName ==
    [Bool |-> "bool", Int |-> "int", Int8 |-> "int8", Int16 |-> "int16",
     Int32 |-> "int32", Int64 |-> "int64", Uint |-> "uint", Uint8 |-> "uint8",
     Uint16 |-> "uint16", Uint32 |-> "uint32", Uint64 |-> "uint64",
     Uintptr |-> "uintptr", Float32 |-> "float32", Float64 |-> "float64",
     Complex64 |-> "complex64", Complex128 |-> "complex128",
     String |-> "string", UnsafePointer |-> "unsafeptr"]

Constructors ==
    {"array", "basic", "chan", "interface", "map", "pointer", "func", "slice", "struct"}

\* The reserved first field name of a cgo union.
CUnion == "C union"

\* The panics of getTypeCodeName: an unknown basic kind, a cgo union, an
\* unknown type constructor, anywhere in the type.
RECURSIVE InvalidType(_)
InvalidType(t) ==
    \/ t.con \notin Constructors
    \/ t.con = "basic" /\ t.kind \notin DOMAIN BasicKindName
    \/ t.con = "struct" /\ Len(t.elems) > 2 /\ t.fnames[1] = CUnion
    \/ \E i \in 1..Len(t.elems) : InvalidType(t.elems[i])
    \/ \E i \in 1..Len(t.results) : InvalidType(t.results[i])

\* getTypeCodeName with the array length left out of the identifier.
RECURSIVE getTypeCodeNameNoLen(_)
getTypeCodeNameNoLen(t) ==
    LET name == IF t.name # "" THEN "~" \o t.name \o ":" ELSE ""
        sub(ts) == [i \in 1..Len(ts) |-> getTypeCodeNameNoLen(ts[i])]
    IN  CASE t.con = "array" -> "array:" \o name \o getTypeCodeNameNoLen(t.elems[1])
          [] t.con = "basic" -> "basic:" \o name \o BasicKindName[t.kind]
          [] t.con = "chan" -> "chan:" \o name \o getTypeCodeNameNoLen(t.elems[1])
          [] t.con = "interface" -> "interface:" \o name \o "{" \o Join(sub(t.elems), ",") \o "}"
          [] t.con = "map" ->
                "map:" \o name \o "{" \o getTypeCodeNameNoLen(t.elems[1]) \o ","
                       \o getTypeCodeNameNoLen(t.elems[2]) \o "}"
          [] t.con = "pointer" -> "pointer:" \o name \o getTypeCodeNameNoLen(t.elems[1])
          [] t.con = "func" ->
                "func:" \o name \o "{" \o Join(sub(t.elems), ",") \o "}{"
                        \o Join(sub(t.results), ",") \o "}"
          [] t.con = "slice" -> "slice:" \o name \o getTypeCodeNameNoLen(t.elems[1])
          [] t.con = "struct" -> "struct:" \o name \o "{" \o Join(sub(t.elems), ",") \o "}"

\* getTypeCodeName with the name segment of a named type put in front of the
\* constructor tag.
RECURSIVE getTypeCodeNameNameFirst(_)
getTypeCodeNameNameFirst(t) ==
    LET name == IF t.name # "" THEN "~" \o t.name \o ":" ELSE ""
        sub(ts) == [i \in 1..Len(ts) |-> getTypeCodeNameNameFirst(ts[i])]
    IN  CASE t.con = "array" ->
                name \o "array:" \o ToString(t.len) \o ":" \o getTypeCodeNameNameFirst(t.elems[1])
          [] t.con = "basic" -> name \o "basic:" \o BasicKindName[t.kind]
          [] t.con = "chan" -> name \o "chan:" \o getTypeCodeNameNameFirst(t.elems[1])
          [] t.con = "interface" -> name \o "interface:" \o "{" \o Join(sub(t.elems), ",") \o "}"
          [] t.con = "map" ->
                name \o "map:" \o "{" \o getTypeCodeNameNameFirst(t.elems[1]) \o ","
                     \o getTypeCodeNameNameFirst(t.elems[2]) \o "}"
          [] t.con = "pointer" -> name \o "pointer:" \o getTypeCodeNameNameFirst(t.elems[1])
          [] t.con = "func" ->
                name \o "func:" \o "{" \o Join(sub(t.elems), ",") \o "}{"
                     \o Join(sub(t.results), ",") \o "}"
          [] t.con = "slice" -> name \o "slice:" \o getTypeCodeNameNameFirst(t.elems[1])
          [] t.con = "struct" -> name \o "struct:" \o "{" \o Join(sub(t.elems), ",") \o "}"

\* getTypeCodeName, for a type it does not panic on.
RECURSIVE getTypeCodeName(_)
getTypeCodeName(t) ==
    LET name == IF t.name # "" THEN "~" \o t.name \o ":" ELSE ""
        sub(ts) == [i \in 1..Len(ts) |-> getTypeCodeName(ts[i])]
    IN  CASE t.con = "array" ->
                "array:" \o name \o ToString(t.len) \o ":" \o getTypeCodeName(t.elems[1])
          [] t.con = "basic" -> "basic:" \o name \o BasicKindName[t.kind]
          [] t.con = "chan" -> "chan:" \o name \o getTypeCodeName(t.elems[1])
          [] t.con = "interface" -> "interface:" \o name \o "{" \o Join(sub(t.elems), ",") \o "}"
          [] t.con = "map" ->
                "map:" \o name \o "{" \o getTypeCodeName(t.elems[1]) \o ","
                       \o getTypeCodeName(t.elems[2]) \o "}"
          [] t.con = "pointer" -> "pointer:" \o name \o getTypeCodeName(t.elems[1])
          [] t.con = "func" ->
                "func:" \o name \o "{" \o Join(sub(t.elems), ",") \o "}{"
                        \o Join(sub(t.results), ",") \o "}"
          [] t.con = "slice" -> "slice:" \o name \o getTypeCodeName(t.elems[1])
          [] t.con = "struct" -> "struct:" \o name \o "{" \o Join(sub(t.elems), ",") \o "}"

(***************************************************************************)
(* The types MangleSpec draws its arguments from.                          *)
(***************************************************************************)
Int8 == Basic("Int8")
Int32 == Basic("Int32")

\* The two-field struct of int32 and the named type pkg.Point over it.
PointStruct == Struct(<<Int32, Int32>>, <<"X", "Y">>)
Point == Named("pkg.Point", PointStruct)

Leaves == {Int8, Int32, Named("pkg.A", Int8), Named("pkg.B", Int8)}
FieldLeaves == {Int8, Int32}

SeqsUpTo(S, n) == UNION {[1..k -> S] : k \in 0..n}

\* Field names f1.. with the first one replaced by `first`.
FieldNames(n, first) == [i \in 1..n |-> IF i = 1 THEN first ELSE "f" \o ToString(i)]

Structs ==
    {Struct(fs, FieldNames(Len(fs), first)) :
        fs \in SeqsUpTo(FieldLeaves, MaxFields), first \in {"a", "b"}}

\* cgo unions: the first field carries the reserved name.
CgoUnions ==
    {Struct(fs, FieldNames(Len(fs), CUnion)) :
        fs \in {<<Int8>>, <<Int8, Int32>>, <<Int8, Int32, Int32>>}}

Signatures == {Signature(ps, rs) : ps \in SeqsUpTo(FieldLeaves, 2), rs \in SeqsUpTo(FieldLeaves, 1)}

Interfaces ==
    {Interface(<<>>, <<>>)}
    \cup {Interface(<<s>>, <<n>>) : s \in {Signature(<<>>, <<>>), Signature(<<Int8>>, <<>>)},
                                      n \in {"M", "N"}}
    \cup {Interface(<<Signature(<<>>, <<>>), Signature(<<Int8>>, <<>>)>>, <<"M", "N">>)}

Unnamed ==
    Leaves
    \cup {Pointer(e) : e \in Leaves} \cup {Slice(e) : e \in Leaves}
    \cup {Chan(e) : e \in Leaves}
    \cup {Array(n, e) : n \in 0..MaxArrayLen, e \in Leaves}
    \cup {Map(k, e) : k \in FieldLeaves, e \in FieldLeaves}
    \cup Structs \cup CgoUnions \cup Signatures \cup Interfaces
    \cup {Pointer(Pointer(Int8)), Pointer(PointStruct), Slice(Slice(Int8)),
          PointStruct, Struct(<<PointStruct>>, <<"p">>), Struct(<<Point>>, <<"p">>),
          Basic("UntypedNil")}

MangleTypes ==
    Unnamed
    \cup {Named("pkg.A", t) : t \in {Pointer(Int8), Slice(Int8), Chan(Int8), Array(2, Int8),
                                      Map(Int8, Int8), Signature(<<Int8>>, <<>>),
                                      Interface(<<Signature(<<>>, <<>>)>>, <<"M">>),
                                      Struct(<<Int8>>, <<"a">>)}}
    \cup {Point, Named("pkg.Pair", PointStruct), Pointer(Point)}

(***************************************************************************)
(* The program under compilation, as ItfSpec sees it: the concrete types   *)
(* it boxes, their method sets, the interface types it asserts to.         *)
(***************************************************************************)

\* t.String() of go/types.
RECURSIVE TypeString(_)
TypeString(t) ==
    LET sub(ts) == [i \in 1..Len(ts) |-> TypeString(ts[i])]
        tuple(ts) ==
            IF Len(ts) = 0 THEN ""
            ELSE IF Len(ts) = 1 THEN " " \o TypeString(ts[1])
            ELSE " (" \o Join(sub(ts), ", ") \o ")"
    IN  IF t.name # "" THEN t.name
        ELSE CASE t.con = "array" -> "[" \o ToString(t.len) \o "]" \o TypeString(t.elems[1])
               [] t.con = "basic" ->
                    IF t.kind = "UnsafePointer" THEN "unsafe.Pointer"
                    ELSE IF t.kind \in DOMAIN BasicKindName THEN BasicKindName[t.kind]
                    ELSE "untyped"
               [] t.con = "chan" -> "chan " \o TypeString(t.elems[1])
               [] t.con = "interface" ->
                    "interface{"
                    \o Join([i \in 1..Len(t.elems) |->
                                t.fnames[i] \o "(" \o Join(sub(t.elems[i].elems), ", ") \o ")"
                                \o tuple(t.elems[i].results)], "; ")
                    \o "}"
               [] t.con = "map" ->
                    "map[" \o TypeString(t.elems[1]) \o "]" \o TypeString(t.elems[2])
               [] t.con = "pointer" -> "*" \o TypeString(t.elems[1])
               [] t.con = "func" ->
                    "func(" \o Join(sub(t.elems), ", ") \o ")" \o tuple(t.results)
               [] t.con = "slice" -> "[]" \o TypeString(t.elems[1])
               [] t.con = "struct" ->
                    "struct{"
                    \o Join([i \in 1..Len(t.elems) |->
                                (IF t.fnames[i] = "" THEN "" ELSE t.fnames[i] \o " ")
                                \o TypeString(t.elems[i])], "; ")
                    \o "}"

\* A *types.Func / *ssa.Function: a method with its receiver type and the
\* link name of the function that implements it (interface methods have
\* neither).
NoType == Basic("")
Method(name, params, results, recv, linkName) ==
    [name |-> name, params |-> params, results |-> results, recv |-> recv, fn |-> linkName]

\* struct{X, Y int32} again with other field names: an other type, the same
\* components.
PairStruct == Struct(<<Int32, Int32>>, <<"A", "B">>)

\* type Point struct{X, Y int32}
\* func (p *Point) Scale(k int32);  func (p Point) Area() int32
PointArea == Method("Area", <<>>, <<Int32>>, Point, "pkg.Point.Area")
PtrPointArea == Method("Area", <<>>, <<Int32>>, Pointer(Point), "(*pkg.Point).Area")
PtrPointScale == Method("Scale", <<Int32>>, <<>>, Pointer(Point), "(*pkg.Point).Scale")

\* struct{ Point } embeds pkg.Point and has its method Area, promoted;
\* struct{ P Point } has the same components and no method.
EmbedsPoint == Struct(<<Point>>, <<"">>)
HoldsPoint == Struct(<<Point>>, <<"P">>)
EmbedsPointArea == Method("Area", <<>>, <<Int32>>, EmbedsPoint, "struct{pkg.Point}.Area")

\* The methods of the program that have a function.
ProgramMethods == {PointArea, PtrPointArea, PtrPointScale}

\* The methods of typ in the order in which the program declares them.
DeclaredMethodsOf(typ) ==
    IF typ = Point THEN <<PointArea>>
    ELSE IF typ = Pointer(Point) THEN <<PtrPointScale, PtrPointArea>>
    ELSE <<>>

\* c.ir.Program.MethodSets.MethodSet(typ): go/types keeps the methods of a
\* method set ordered by name.
MethodSetOf(typ) ==
    IF typ = Point THEN <<PointArea>>
    ELSE IF typ = Pointer(Point) THEN <<PtrPointArea, PtrPointScale>>
    ELSE IF typ = EmbedsPoint THEN <<EmbedsPointArea>>
    ELSE <<>>

\* The concrete types the program boxes and asserts to.
ConcreteTypes == {Int8, Int32, Point, Pointer(Point), PointStruct, PairStruct}

\* type Shape interface{ Area() int32 };  type Sizer interface{ Area() int8 }
\* type Empty interface{};  and the unnamed interface{ Area() int32 }
Shape == Named("pkg.Shape", Interface(<<Signature(<<>>, <<Int32>>)>>, <<"Area">>))
Sizer == Named("pkg.Sizer", Interface(<<Signature(<<>>, <<Int8>>)>>, <<"Area">>))
Empty == Named("pkg.Empty", Interface(<<>>, <<>>))
UnnamedShape == Underlying(Shape)
InterfaceTypes == {Shape, Sizer, Empty, UnnamedShape}

\* t.Method(i) of an interface type
InterfaceMethod(t, i) == Method(t.fnames[i], t.elems[i].elems, t.elems[i].results, NoType, "")

\* The methods getMethodSignature is called on.
AllMethods ==
    {PointArea, PtrPointArea, PtrPointScale}
    \cup {InterfaceMethod(t, i) : t \in {Shape, Sizer}, i \in {1}}

\* The values the program boxes.
Values == {1, 2}

\* ir.MethodSignature: the method's name, its parameter types and its result
\* types in source order.
MethodSignature(method) ==
    LET str(ts) == [i \in 1..Len(ts) |-> TypeString(ts[i])]
    IN  method.name \o "(" \o Join(str(method.params), ", ") \o ")"
        \o (IF Len(method.results) = 0 THEN ""
            ELSE IF Len(method.results) = 1 THEN " " \o TypeString(method.results[1])
            ELSE " (" \o Join(str(method.results), ", ") \o ")")

(***************************************************************************)
(* The LLVM module.  The compiler state c that the operators below thread  *)
(* through is [mod, funcs, wrappers]; an operator that returns a value     *)
(* returns [c, ret].                                                       *)
(***************************************************************************)
Null == 0

\* c.mod.NamedGlobal(name): the address of the global, or Null.
NamedGlobal(m, name) ==
    IF \E i \in 1..Len(m) : m[i].name = name
    THEN CHOOSE i \in 1..Len(m) : m[i].name = name
    ELSE Null

\* llvm.AddGlobal followed by SetInitializer: LLVM renames a global whose
\* name is taken.
AddGlobal(m, kind, name, init) ==
    LET unique == IF NamedGlobal(m, name) = Null THEN name
                  ELSE name \o "." \o ToString(Len(m))
    IN  Append(m, [name |-> unique, kind |-> kind, init |-> init])

\* A result [c, ret] of the operators below.
Result(c, ret) == [c |-> c, ret |-> ret]

\* The module of c with one more global; ret is its address.
WithGlobal(c, kind, name, init) ==
    Result([c EXCEPT !.mod = AddGlobal(c.mod, kind, name, init)], Len(c.mod) + 1)

\* getTypeCode that adds the placeholder without looking it up first.
getTypeCodeNoLookup(c, typ) ==
    WithGlobal(c, "typecodeID", "type:" \o getTypeCodeName(typ), <<>>)

getTypeCode(c, typ) ==
    LET Lookup(globalName) ==
            IF NamedGlobal(c.mod, globalName) = Null
            THEN WithGlobal(c, "typecodeID", globalName, <<>>)
            ELSE Result(c, NamedGlobal(c.mod, globalName))
    IN  Lookup("type:" \o getTypeCodeName(typ))

\* getMethodSignature that adds the placeholder without looking it up first.
getMethodSignatureNoLookup(c, method) ==
    WithGlobal(c, "signature", "func " \o MethodSignature(method), <<>>)

getMethodSignature(c, method) ==
    LET Lookup(signature) ==
            IF NamedGlobal(c.mod, "func " \o signature) = Null
            THEN WithGlobal(c, "signature", "func " \o signature, <<>>)
            ELSE Result(c, NamedGlobal(c.mod, "func " \o signature))
    IN  Lookup(MethodSignature(method))

\* Whether the LLVM type of the receiver is one pointer.
ReceiverIsPointer(recv) == recv.con = "pointer"

\* getInterfaceInvokeWrapper that does not look the wrapper up first.
getInterfaceInvokeWrapperNoLookup(c, f) ==
    LET Wrap(wrapperName) ==
            IF ReceiverIsPointer(f.recv) THEN Result(c, f.fn)
            ELSE Result([c EXCEPT !.funcs = @ \cup {wrapperName},
                                  !.wrappers = Append(@, [fn |-> f.fn, wrapper |-> wrapperName,
                                                          receiverType |-> f.recv])],
                        wrapperName)
    IN  Wrap(f.fn \o "$invoke")

getInterfaceInvokeWrapper(c, f) ==
    LET Wrap(wrapperName) ==
            IF wrapperName \in c.funcs THEN Result(c, wrapperName)
            ELSE IF ReceiverIsPointer(f.recv) THEN Result(c, f.fn)
            ELSE Result([c EXCEPT !.funcs = @ \cup {wrapperName},
                                  !.wrappers = Append(@, [fn |-> f.fn, wrapper |-> wrapperName,
                                                          receiverType |-> f.recv])],
                        wrapperName)
    IN  Wrap(f.fn \o "$invoke")

\* The loop of getTypeMethodSet over ms from its i-th method on; ret is the
\* array of methodInfo records.
RECURSIVE MethodInfos(_, _, _, _)
MethodInfos(c, ms, i, methods) ==
    LET Wrapped(sig, fn) ==
            MethodInfos(fn.c, ms, i + 1, Append(methods, [signature |-> sig.ret, fn |-> fn.ret]))
        Signed(sig) == Wrapped(sig, getInterfaceInvokeWrapper(sig.c, ms[i]))
    IN  IF i > Len(ms) THEN Result(c, methods)
        ELSE Signed(getMethodSignature(c, ms[i]))

\* getTypeMethodSet panics on a method without a function in the module.
MissingFunction(c, typ) ==
    /\ NamedGlobal(c.mod, TypeString(typ) \o "$methodset") = Null
    /\ \E i \in 1..Len(MethodSetOf(typ)) : MethodSetOf(typ)[i].fn \notin c.funcs

\* getTypeMethodSet that does not look the method set up first.
getTypeMethodSetNoLookup(c, typ) ==
    LET Emit(name, infos) == WithGlobal(infos.c, "methodset", name, infos.ret)
        Lookup(name, ms) ==
            IF Len(ms) = 0 THEN Result(c, Null)
            ELSE Emit(name, MethodInfos(c, ms, 1, <<>>))
    IN  Lookup(TypeString(typ) \o "$methodset", MethodSetOf(typ))

\* getTypeMethodSet that emits a method set global for a type without methods
\* too.
getTypeMethodSetEmptyGlobal(c, typ) ==
    LET Emit(name, infos) == WithGlobal(infos.c, "methodset", name, infos.ret)
        Lookup(name, ms) ==
            IF NamedGlobal(c.mod, name) # Null THEN Result(c, NamedGlobal(c.mod, name))
            ELSE Emit(name, MethodInfos(c, ms, 1, <<>>))
    IN  Lookup(TypeString(typ) \o "$methodset", MethodSetOf(typ))

getTypeMethodSet(c, typ) ==
    LET Emit(name, infos) == WithGlobal(infos.c, "methodset", name, infos.ret)
        Lookup(name, ms) ==
            IF NamedGlobal(c.mod, name) # Null THEN Result(c, NamedGlobal(c.mod, name))
            ELSE IF Len(ms) = 0 THEN Result(c, Null)
            ELSE Emit(name, MethodInfos(c, ms, 1, <<>>))
    IN  Lookup(TypeString(typ) \o "$methodset", MethodSetOf(typ))

\* The loop of getInterfaceMethodSet.
RECURSIVE InterfaceSignatures(_, _, _, _)
InterfaceSignatures(c, typ, i, methods) ==
    LET Signed(sig) == InterfaceSignatures(sig.c, typ, i + 1, Append(methods, sig.ret))
    IN  IF i > Len(typ.elems) THEN Result(c, methods)
        ELSE Signed(getMethodSignature(c, InterfaceMethod(typ, i)))

\* getInterfaceMethodSet panics on an interface without methods (methods[0]),
\* and its caller on an interface type that is not a named type.
InterfaceMethodSetPanics(c, typ) ==
    \/ typ.name = ""
    \/ /\ NamedGlobal(c.mod, TypeString(typ) \o "$interface") = Null
       /\ Len(typ.elems) = 0

getInterfaceMethodSet(c, typ) ==
    LET Emit(name, sigs) == WithGlobal(sigs.c, "interface", name, sigs.ret)
        Lookup(name) ==
            IF NamedGlobal(c.mod, name) # Null THEN Result(c, NamedGlobal(c.mod, name))
            ELSE Emit(name, InterfaceSignatures(c, typ, 1, <<>>))
    IN  Lookup(TypeString(typ) \o "$interface")

\* emitPointerPack of one value: the pointer-sized value slot.
emitPointerPack(val) == [bits |-> val]

\* emitPointerUnpack of the value slot as one value of type typ.
emitPointerUnpack(ptr, typ) == [typ |-> typ, val |-> ptr.bits]

\* c.getZeroValue
getZeroValue(typ) == [typ |-> typ, val |-> 0]

\* An interface value.
InterfaceValue(typecode, value) == [typecode |-> typecode, value |-> value]

\* parseMakeInterface that adds the typeInInterface global without looking it
\* up first.
parseMakeInterfaceNoLookup(c, val, typ) ==
    LET Box(itfValue, itfTypeCodeGlobal, itfMethodSetGlobal, name) ==
            Result(WithGlobal(itfMethodSetGlobal.c, "typeInInterface", name,
                              <<itfTypeCodeGlobal.ret, itfMethodSetGlobal.ret>>).c,
                   InterfaceValue(Len(itfMethodSetGlobal.c.mod) + 1, itfValue))
        MethodSet(itfValue, itfTypeCodeGlobal, itfMethodSetGlobal) ==
            Box(itfValue, itfTypeCodeGlobal, itfMethodSetGlobal,
                "typeInInterface:" \o itfMethodSetGlobal.c.mod[itfTypeCodeGlobal.ret].name)
        TypeCode(itfValue, itfTypeCodeGlobal) ==
            MethodSet(itfValue, itfTypeCodeGlobal, getTypeMethodSet(itfTypeCodeGlobal.c, typ))
    IN  TypeCode(emitPointerPack(val), getTypeCode(c, typ))

parseMakeInterface(c, val, typ) ==
    LET Box(itfValue, itfTypeCodeGlobal, itfMethodSetGlobal, name) ==
            IF NamedGlobal(itfMethodSetGlobal.c.mod, name) = Null
            THEN Result(WithGlobal(itfMethodSetGlobal.c, "typeInInterface", name,
                                   <<itfTypeCodeGlobal.ret, itfMethodSetGlobal.ret>>).c,
                        InterfaceValue(Len(itfMethodSetGlobal.c.mod) + 1, itfValue))
            ELSE Result(itfMethodSetGlobal.c,
                        InterfaceValue(NamedGlobal(itfMethodSetGlobal.c.mod, name), itfValue))
        MethodSet(itfValue, itfTypeCodeGlobal, itfMethodSetGlobal) ==
            Box(itfValue, itfTypeCodeGlobal, itfMethodSetGlobal,
                "typeInInterface:" \o itfMethodSetGlobal.c.mod[itfTypeCodeGlobal.ret].name)
        TypeCode(itfValue, itfTypeCodeGlobal) ==
            MethodSet(itfValue, itfTypeCodeGlobal, getTypeMethodSet(itfTypeCodeGlobal.c, typ))
    IN  TypeCode(emitPointerPack(val), getTypeCode(c, typ))

(***************************************************************************)
(* parseTypeAssert.  The code it emits is three basic blocks of            *)
(* instructions [op, arg]:                                                 *)
(*   extract.type              extractvalue itf, 0  (interface.type)       *)
(*   call.typeAssert           runtime.typeAssert(interface.type, arg)     *)
(*   call.interfaceImplements  runtime.interfaceImplements(.., arg)        *)
(*   condbr                    br commaOk, typeassert.ok, typeassert.next  *)
(*   extract.value             extractvalue itf, 1  (typeassert.value.ptr) *)
(*   unpack                    emitPointerUnpack(value.ptr, arg)           *)
(*   same.itf                  the ok value is the interface value itself  *)
(*   br                        br typeassert.next                          *)
(*   phi                       phi [zero of arg, entry], [ok value, ok]    *)
(*   insert.value, insert.ok   the (value, ok) tuple                       *)
(*   call.interfaceTypeAssert  runtime.interfaceTypeAssert(commaOk)        *)
(***************************************************************************)
Instr(op, arg) == [op |-> op, arg |-> arg]

IsInterface(typ) == typ.con = "interface"

\* The block the assertion is emitted into, up to the conditional branch.
TypeAssertEntry(check) ==
    <<Instr("extract.type", 0), check, Instr("condbr", 0)>>

\* typeassert.ok
TypeAssertOk(asserted) ==
    IF IsInterface(asserted)
    THEN <<Instr("same.itf", 0), Instr("br", 0)>>
    ELSE <<Instr("extract.value", 0), Instr("unpack", asserted), Instr("br", 0)>>

\* typeassert.next with the trap emitted whatever expr.CommaOk is.
TypeAssertNextAlwaysTrap(asserted, commaOk) ==
    <<Instr("phi", asserted), Instr("call.interfaceTypeAssert", 0)>>
    \o (IF commaOk THEN <<Instr("insert.value", 0), Instr("insert.ok", 0)>> ELSE <<>>)

\* typeassert.next
TypeAssertNext(asserted, commaOk) ==
    <<Instr("phi", asserted)>>
    \o (IF commaOk
        THEN <<Instr("insert.value", 0), Instr("insert.ok", 0)>>
        ELSE <<Instr("call.interfaceTypeAssert", 0)>>)

\* The blocks with the value slot unpacked before the branch.
TypeAssertBlocksSpeculative(asserted, commaOk, check) ==
    [entry |-> <<Instr("extract.type", 0), check>>
               \o (IF IsInterface(asserted) THEN <<Instr("same.itf", 0)>>
                   ELSE <<Instr("extract.value", 0), Instr("unpack", asserted)>>)
               \o <<Instr("condbr", 0)>>,
     ok |-> <<Instr("br", 0)>>,
     next |-> TypeAssertNext(asserted, commaOk)]

TypeAssertBlocks(asserted, commaOk, check) ==
    [entry |-> TypeAssertEntry(check),
     ok |-> TypeAssertOk(asserted),
     next |-> TypeAssertNext(asserted, commaOk)]

\* parseTypeAssert panics in getTypeCodeName or on the way to
\* getInterfaceMethodSet.
parseTypeAssertPanics(c, asserted) ==
    IF IsInterface(asserted) THEN InterfaceMethodSetPanics(c, asserted)
    ELSE InvalidType(asserted)

\* parseTypeAssert: ret is [asserted, commaOk, code, ret], ret.ret naming the
\* SSA value handed back to the caller.
parseTypeAssert(c, asserted, commaOk) ==
    LET Emit(global, op) ==
            Result(global.c,
                   [asserted |-> asserted, commaOk |-> commaOk,
                    code |-> TypeAssertBlocks(asserted, commaOk, Instr(op, global.ret)),
                    ret |-> IF commaOk THEN "tuple" ELSE "phi"])
    IN  IF IsInterface(asserted)
        THEN Emit(getInterfaceMethodSet(c, asserted), "call.interfaceImplements")
        ELSE Emit(getTypeCode(c, asserted), "call.typeAssert")

(***************************************************************************)
(* Execution of the emitted code.  The runtime calls are lowered later;    *)
(* here they follow the contract the construction layer relies on.         *)
(***************************************************************************)
Undef == [undef |-> TRUE]
UndefRegs ==
    [typeNum |-> Undef, commaOk |-> Undef, valuePtr |-> Undef, valueOk |-> Undef,
     phi |-> Undef, tuple |-> Undef, result |-> Undef, pred |-> "", done |-> FALSE]
NoTa == [asserted |-> NoType, commaOk |-> FALSE,
         code |-> [entry |-> <<>>, ok |-> <<>>, next |-> <<>>], ret |-> ""]
NilInterface == InterfaceValue(Null, emitPointerPack(0))
NotBoxed == [typ |-> NoType, val |-> 0]

\* runtime.typeAssert after lowering: the typecode is that of the type the
\* placeholder stands for.
typeAssert(m, actualTypeNum, placeholder) ==
    actualTypeNum # Null /\ m[actualTypeNum].init[1] = placeholder

\* runtime.interfaceImplements after lowering: the concrete type has a method
\* of every signature of the shape.
interfaceImplements(m, actualTypeNum, methodSet) ==
    /\ actualTypeNum # Null
    /\ \A i \in 1..Len(m[methodSet].init) :
          LET ms == m[actualTypeNum].init[2]
          IN  /\ ms # Null
              /\ \E j \in 1..Len(m[ms].init) : m[ms].init[j].signature = m[methodSet].init[i]

\* One instruction: st is [regs, trace, goto], goto naming where control
\* goes once the block is left ("" inside the block).
ExecInstr(m, v, block, in, st) ==
    LET r == st.regs
        t == Append(st.trace, in.op)
    IN  CASE in.op = "extract.type" ->
                [st EXCEPT !.regs.typeNum = v.typecode, !.trace = t]
          [] in.op = "call.typeAssert" ->
                [st EXCEPT !.regs.commaOk = typeAssert(m, r.typeNum, in.arg), !.trace = t]
          [] in.op = "call.interfaceImplements" ->
                [st EXCEPT !.regs.commaOk = interfaceImplements(m, r.typeNum, in.arg),
                           !.trace = t]
          [] in.op = "condbr" ->
                [st EXCEPT !.goto = IF r.commaOk THEN "ok" ELSE "next",
                           !.regs.pred = block, !.trace = t]
          [] in.op = "extract.value" ->
                [st EXCEPT !.regs.valuePtr = v.value, !.trace = t]
          [] in.op = "unpack" ->
                [st EXCEPT !.regs.valueOk = emitPointerUnpack(r.valuePtr, in.arg), !.trace = t]
          [] in.op = "same.itf" ->
                [st EXCEPT !.regs.valueOk = v, !.trace = t]
          [] in.op = "br" ->
                [st EXCEPT !.goto = "next", !.regs.pred = block, !.trace = t]
          [] in.op = "phi" ->
                [st EXCEPT !.regs.phi = IF r.pred = "entry" THEN getZeroValue(in.arg)
                                        ELSE r.valueOk,
                           !.trace = t]
          [] in.op = "insert.value" ->
                [st EXCEPT !.regs.tuple = <<r.phi, Undef>>, !.trace = t]
          [] in.op = "insert.ok" ->
                [st EXCEPT !.regs.tuple = <<r.tuple[1], r.commaOk>>, !.trace = t]
          [] in.op = "call.interfaceTypeAssert" ->
                [st EXCEPT !.goto = IF r.commaOk THEN "" ELSE "trap", !.trace = t]

RECURSIVE ExecInstrs(_, _, _, _, _)
ExecInstrs(m, v, block, instrs, st) ==
    IF instrs = <<>> \/ st.goto # "" THEN st
    ELSE ExecInstrs(m, v, block, Tail(instrs), ExecInstr(m, v, block, Head(instrs), st))

(***************************************************************************)
(* defer.go: the per-function defer tables and the code emitted for the    *)
(* defer statements and for the dispatcher                                 *)
(***************************************************************************)
\* instr.Call of an ssa.Defer: kind tells which of emitDefer's branches takes
\* it, callee is Method.FullName() of an invoke, the called function, or
\* Fn of a MakeClosure; value is the SSA value instr.Call.Value.
DeferCall(kind, callee, nargs, value) ==
    [kind |-> kind, callee |-> callee, nargs |-> nargs, value |-> value]

\* defer A(); defer B(i); defer x.M(); defer y.M(); defer func() {..}() with
\* a free variable; defer of a call through a function value.
DeferA == DeferCall("function", "pkg.A", 0, "pkg.A")
DeferB == DeferCall("function", "pkg.B", 1, "pkg.B")
DeferXM == DeferCall("invoke", "(pkg.I).M", 0, "x")
DeferYM == DeferCall("invoke", "(pkg.I).M", 0, "y")
DeferC == DeferCall("closure", "pkg.f$1", 0, "c")
DeferFuncValue == DeferCall("other", "", 0, "fv")
DeferCalls == {DeferA, DeferB, DeferXM, DeferYM, DeferC, DeferFuncValue}

\* The functions compiled: every sequence of up to MaxSites defer statements,
\* and three functions that mix the three kinds of deferred call.
DeferFunctions ==
    (SeqsUpTo(DeferCalls, MaxSites) \ {<<>>})
        \cup {<<DeferA, DeferB, DeferC>>, <<DeferB, DeferYM, DeferC>>,
              <<DeferXM, DeferC, DeferYM>>}

\* The mixed functions hold one statement more than MaxSites.
MaxStatements == MaxSites + 1

\* Go maps as functions on the keys present.
EmptyMap == [k \in {} |-> 0]
MapPut(m, k, v) == [x \in DOMAIN m \cup {k} |-> IF x = k THEN v ELSE m[x]]

\* The Frame before deferInitFunc.
NoFrame ==
    [deferFuncs |-> EmptyMap, deferInvokeFuncs |-> EmptyMap, deferClosureFuncs |-> EmptyMap,
     allDeferFuncs |-> <<>>, entry |-> <<>>]

\* deferInitFunc: the three maps are made and the entry block gets the alloca
\* of deferPtr and the store of null to it.
deferInitFunc(fr) ==
    [fr EXCEPT !.deferFuncs = EmptyMap,
                  !.deferInvokeFuncs = EmptyMap,
                  !.deferClosureFuncs = EmptyMap,
                  !.entry = <<Instr("alloca", "deferPtr"), Instr("store", Null)>>]

\* An operand of the code emitted at a defer statement.
Operand(src, of) == [src |-> src, of |-> of]
CallArgs(instr) == [i \in 1..instr.nargs |-> Operand("arg", i)]

\* The code emitDefer emits for one statement: the values inserted into the
\* frame struct in order and the value stored to deferPtr.
DeferCode(values, store) == [values |-> values, store |-> store]

\* emitDefer whose frames do not link to the previous head.
emitDeferNoLink(fr, instr) ==
    LET Register(map) ==
            IF instr.callee \in DOMAIN fr[map] THEN fr
            ELSE [fr EXCEPT ![map] = MapPut(@, instr.callee, Len(fr.allDeferFuncs)),
                               !.allDeferFuncs = Append(@, instr)]
        Emit(f, map, rest) ==
            [frame |-> f, error |-> FALSE,
             code |-> DeferCode(<<Operand("const", f[map][instr.callee]), Operand("const", Null)>>
                                    \o rest,
                                Operand("alloca", 0))]
    IN  CASE instr.kind = "invoke" ->
                Emit(Register("deferInvokeFuncs"), "deferInvokeFuncs",
                     <<Operand("receiver", instr.value)>> \o CallArgs(instr))
          [] instr.kind = "function" ->
                Emit(Register("deferFuncs"), "deferFuncs", CallArgs(instr))
          [] instr.kind = "closure" ->
                Emit(Register("deferClosureFuncs"), "deferClosureFuncs",
                     CallArgs(instr) \o <<Operand("context", instr.value)>>)
          [] OTHER ->
                [frame |-> fr, error |-> TRUE,
                 code |-> DeferCode(<<>>, Operand("none", 0))]

\* emitDefer that stores the loaded head back instead of the new frame.
emitDeferStoreNext(fr, instr) ==
    LET Register(map) ==
            IF instr.callee \in DOMAIN fr[map] THEN fr
            ELSE [fr EXCEPT ![map] = MapPut(@, instr.callee, Len(fr.allDeferFuncs)),
                               !.allDeferFuncs = Append(@, instr)]
        Emit(f, map, rest) ==
            [frame |-> f, error |-> FALSE,
             code |-> DeferCode(<<Operand("const", f[map][instr.callee]), Operand("next", 0)>>
                                    \o rest,
                                Operand("next", 0))]
    IN  CASE instr.kind = "invoke" ->
                Emit(Register("deferInvokeFuncs"), "deferInvokeFuncs",
                     <<Operand("receiver", instr.value)>> \o CallArgs(instr))
          [] instr.kind = "function" ->
                Emit(Register("deferFuncs"), "deferFuncs", CallArgs(instr))
          [] instr.kind = "closure" ->
                Emit(Register("deferClosureFuncs"), "deferClosureFuncs",
                     CallArgs(instr) \o <<Operand("context", instr.value)>>)
          [] OTHER ->
                [frame |-> fr, error |-> TRUE,
                 code |-> DeferCode(<<>>, Operand("none", 0))]

\* emitDefer that takes a call of an other form for a call of a function.
emitDeferUncommonAsFunction(fr, instr) ==
    LET Register(map) ==
            IF instr.callee \in DOMAIN fr[map] THEN fr
            ELSE [fr EXCEPT ![map] = MapPut(@, instr.callee, Len(fr.allDeferFuncs)),
                               !.allDeferFuncs = Append(@, instr)]
        Emit(f, map, rest) ==
            [frame |-> f, error |-> FALSE,
             code |-> DeferCode(<<Operand("const", f[map][instr.callee]), Operand("next", 0)>>
                                    \o rest,
                                Operand("alloca", 0))]
    IN  CASE instr.kind = "invoke" ->
                Emit(Register("deferInvokeFuncs"), "deferInvokeFuncs",
                     <<Operand("receiver", instr.value)>> \o CallArgs(instr))
          [] instr.kind = "closure" ->
                Emit(Register("deferClosureFuncs"), "deferClosureFuncs",
                     CallArgs(instr) \o <<Operand("context", instr.value)>>)
          [] OTHER ->
                Emit(Register("deferFuncs"), "deferFuncs", CallArgs(instr))

\* emitDefer with the index of a callee counted within its own map.
emitDeferIndexPerMap(fr, instr) ==
    LET Register(map) ==
            IF instr.callee \in DOMAIN fr[map] THEN fr
            ELSE [fr EXCEPT ![map] = MapPut(@, instr.callee, Cardinality(DOMAIN fr[map])),
                               !.allDeferFuncs = Append(@, instr)]
        Emit(f, map, rest) ==
            [frame |-> f, error |-> FALSE,
             code |-> DeferCode(<<Operand("const", f[map][instr.callee]), Operand("next", 0)>>
                                    \o rest,
                                Operand("alloca", 0))]
    IN  CASE instr.kind = "invoke" ->
                Emit(Register("deferInvokeFuncs"), "deferInvokeFuncs",
                     <<Operand("receiver", instr.value)>> \o CallArgs(instr))
          [] instr.kind = "function" ->
                Emit(Register("deferFuncs"), "deferFuncs", CallArgs(instr))
          [] instr.kind = "closure" ->
                Emit(Register("deferClosureFuncs"), "deferClosureFuncs",
                     CallArgs(instr) \o <<Operand("context", instr.value)>>)
          [] OTHER ->
                [frame |-> fr, error |-> TRUE,
                 code |-> DeferCode(<<>>, Operand("none", 0))]

\* emitDefer: the callee gets the next free index of allDeferFuncs the first
\* time it is deferred; the frame struct is {callback, next, [receiver],
\* arguments, [context]} in an alloca of its own, whose address is stored to
\* deferPtr.  A call of an other form records an error and emits no frame.
emitDefer(fr, instr) ==
    LET Register(map) ==
            IF instr.callee \in DOMAIN fr[map] THEN fr
            ELSE [fr EXCEPT ![map] = MapPut(@, instr.callee, Len(fr.allDeferFuncs)),
                               !.allDeferFuncs = Append(@, instr)]
        Emit(f, map, rest) ==
            [frame |-> f, error |-> FALSE,
             code |-> DeferCode(<<Operand("const", f[map][instr.callee]), Operand("next", 0)>>
                                    \o rest,
                                Operand("alloca", 0))]
    IN  CASE instr.kind = "invoke" ->
                Emit(Register("deferInvokeFuncs"), "deferInvokeFuncs",
                     <<Operand("receiver", instr.value)>> \o CallArgs(instr))
          [] instr.kind = "function" ->
                Emit(Register("deferFuncs"), "deferFuncs", CallArgs(instr))
          [] instr.kind = "closure" ->
                Emit(Register("deferClosureFuncs"), "deferClosureFuncs",
                     CallArgs(instr) \o <<Operand("context", instr.value)>>)
          [] OTHER ->
                [frame |-> fr, error |-> TRUE,
                 code |-> DeferCode(<<>>, Operand("none", 0))]

\* The function pointer getInvokeCall returns: runtime.interfaceMethod of the
\* typecode extracted from the SSA value instr.Value, for instr.Method.
getInvokeCall(instr) == [op |-> "interfaceMethod", itf |-> instr.value, method |-> instr.callee]

\* One arm of the dispatcher's switch: the fields of the frame struct it
\* loads (1 is the callback, 2 is next), the parameters it appends, the
\* function it calls and the block it branches to.
SwitchArm(fields, tail, fn, br) == [fields |-> fields, tail |-> tail, fn |-> fn, br |-> br]
FieldsFrom3(n) == [i \in 1..n |-> i + 2]

\* emitRunDefers whose arms branch to rundefers.end.
emitRunDefersBrEnd(fr) ==
    [i \in 1..Len(fr.allDeferFuncs) |->
        LET Arm(cb) ==
                CASE cb.kind = "invoke" ->
                        SwitchArm(FieldsFrom3(1 + cb.nargs), <<Undef, Undef>>,
                                  getInvokeCall(cb), "end")
                  [] cb.kind = "function" ->
                        SwitchArm(FieldsFrom3(cb.nargs), <<Undef, Undef>>,
                                  [op |-> "function", fn |-> cb.callee], "end")
                  [] cb.kind = "closure" ->
                        SwitchArm(FieldsFrom3(cb.nargs + 1), <<Undef>>,
                                  [op |-> "function", fn |-> cb.callee], "end")
        IN  Arm(fr.allDeferFuncs[i])]

\* emitRunDefers whose arms all load the fields of a static function's frame.
emitRunDefersUniversalFrame(fr) ==
    [i \in 1..Len(fr.allDeferFuncs) |->
        LET Arm(cb) ==
                CASE cb.kind = "invoke" ->
                        SwitchArm(FieldsFrom3(cb.nargs), <<Undef, Undef>>,
                                  getInvokeCall(cb), "loophead")
                  [] cb.kind = "function" ->
                        SwitchArm(FieldsFrom3(cb.nargs), <<Undef, Undef>>,
                                  [op |-> "function", fn |-> cb.callee], "loophead")
                  [] cb.kind = "closure" ->
                        SwitchArm(FieldsFrom3(cb.nargs), <<Undef>>,
                                  [op |-> "function", fn |-> cb.callee], "loophead")
        IN  Arm(fr.allDeferFuncs[i])]

\* emitRunDefers: case i-1 of the switch is built from allDeferFuncs[i]
\* (a Go slice, indexed from 0) and branches back to rundefers.loophead.
emitRunDefers(fr) ==
    [i \in 1..Len(fr.allDeferFuncs) |->
        LET Arm(cb) ==
                CASE cb.kind = "invoke" ->
                        SwitchArm(FieldsFrom3(1 + cb.nargs), <<Undef, Undef>>,
                                  getInvokeCall(cb), "loophead")
                  [] cb.kind = "function" ->
                        SwitchArm(FieldsFrom3(cb.nargs), <<Undef, Undef>>,
                                  [op |-> "function", fn |-> cb.callee], "loophead")
                  [] cb.kind = "closure" ->
                        SwitchArm(FieldsFrom3(cb.nargs + 1), <<Undef>>,
                                  [op |-> "function", fn |-> cb.callee], "loophead")
        IN  Arm(fr.allDeferFuncs[i])]

\* The values of the function's SSA values in the activation: x and y are
\* interface values of two concrete types, c is a closure value {context,
\* function}.
DeferEnv ==
    [x |-> InterfaceValue(1, emitPointerPack(1)),
     y |-> InterfaceValue(2, emitPointerPack(2)),
     c |-> [context |-> emitPointerPack(9), fn |-> "pkg.f$1"]]

\* The value of an operand when the statement runs with head pointer next and
\* the new alloca at address addr; the arguments evaluate to the number of
\* the execution (a loop counter).
OperandValue(o, next, addr) ==
    CASE o.src = "const" -> o.of
      [] o.src = "next" -> next
      [] o.src = "alloca" -> addr
      [] o.src = "receiver" -> DeferEnv[o.of].value
      [] o.src = "context" -> DeferEnv[o.of].context
      [] o.src = "arg" -> [typ |-> Int32, val |-> addr]

\* runtime.interfaceMethod after lowering: the implementation of the method
\* by the type of the typecode.
interfaceMethod(typecode, method) == [typecode |-> typecode, method |-> method]

\* The function a switch arm calls.
Callee(fn) ==
    IF fn.op = "interfaceMethod"
    THEN interfaceMethod(DeferEnv[fn.itf].typecode, fn.method)
    ELSE [typecode |-> Null, method |-> fn.fn]

\* The values the entry block may leave in deferPtr.
EntryStores(entry) ==
    IF \E i \in 1..Len(entry) : entry[i].op = "store"
    THEN {entry[i].arg : i \in {j \in 1..Len(entry) : entry[j].op = "store"}}
    ELSE 0..MaxExec

\* The variables of DeferSpec while an other specification runs.
DeferIdle ==
    /\ dpc = "off"
    /\ defers = <<>>
    /\ frame = NoFrame
    /\ errors = <<>>
    /\ body = <<>>
    /\ rundefers = <<>>
    /\ deferPtr = Null
    /\ allocas = <<>>
    /\ executed = <<>>
    /\ deferData = Null
    /\ callback = 0
    /\ invoked = <<>>

(***************************************************************************)
(* Function values (func.go).  funcImplementation always answers           *)
(* funcValueSwitch.                                                        *)
(***************************************************************************)
\* A function of the program: its LLVM name and its Go signature.
FuncDecl(fn, sig) == [fn |-> fn, sig |-> sig]

\* func A(); func B(i int32); the closure func() {..} inside f.
FuncDecls ==
    {FuncDecl("pkg.A", Signature(<<>>, <<>>)),
     FuncDecl("pkg.B", Signature(<<Int32>>, <<>>)),
     FuncDecl("pkg.f$1", Signature(<<>>, <<>>))}

\* The context operands: undef for a function without free variables, or a
\* pointer to the heap-allocated free variables.
FuncContexts == {Null, 9}

getFuncSignature(c, sig) ==
    LET Lookup(sigGlobalName) ==
            IF NamedGlobal(c.mod, sigGlobalName) = Null
            THEN WithGlobal(c, "int8", sigGlobalName, <<>>)
            ELSE Result(c, NamedGlobal(c.mod, sigGlobalName))
    IN  Lookup("reflect/types.type:" \o getTypeCodeName(sig))

\* The func value {context, scalar}.
FuncValue(context, scalar) == [context |-> context, scalar |-> scalar]

\* createFuncValue that adds the `$withSignature` global without looking it
\* up first.
createFuncValueNoLookup(c, funcPtr, context, sig) ==
    LET Create(r, name) ==
            LET Box(g) == Result(g.c, FuncValue(context, g.ret))
            IN  Box(WithGlobal(r.c, "funcValueWithSignature", name, <<funcPtr, r.ret>>))
    IN  Create(getFuncSignature(c, sig), funcPtr \o "$withSignature")

createFuncValue(c, funcPtr, context, sig) ==
    LET Create(r, name) ==
            LET Box(g) == Result(g.c, FuncValue(context, g.ret))
            IN  IF NamedGlobal(r.c.mod, name) = Null
                THEN Box(WithGlobal(r.c, "funcValueWithSignature", name,
                                    <<funcPtr, r.ret>>))
                ELSE Box(Result(r.c, NamedGlobal(r.c.mod, name)))
    IN  Create(getFuncSignature(c, sig), funcPtr \o "$withSignature")

extractFuncScalar(funcValue) == funcValue.scalar

(***************************************************************************)
(* ItfSpec                                                                 *)
(***************************************************************************)
Compiler == [mod |-> mod, funcs |-> funcs, wrappers |-> interfaceInvokeWrappers]

\* A struct that getTypeCodeName refuses.
CgoUnion3 == Struct(<<Int8, Int32, Int32>>, FieldNames(3, CUnion))

\* The variables of ItfSpec while an other specification runs.
ItfIdle ==
    /\ mod = <<>>
    /\ funcs = {}
    /\ interfaceInvokeWrappers = <<>>
    /\ itf = NilInterface
    /\ boxed = NotBoxed
    /\ boxings = <<>>
    /\ sigRefs = {}
    /\ wrapperRefs = {}
    /\ ta = NoTa
    /\ operand = [itf |-> NilInterface, boxed |-> NotBoxed]
    /\ regs = UndefRegs
    /\ trace = <<>>
    /\ ipc = "off"
    /\ nops = 0
    /\ funcValues = <<>>

\* The variables of MangleSpec while an other specification runs.
MangleIdle ==
    /\ mpc = "off"
    /\ mt1 = NoType
    /\ mt2 = NoType
    /\ mn1 = ""
    /\ mn2 = ""

\* An empty module in which the functions of the program are declared, and
\* the nil interface value.
ItfInit ==
    /\ mod = <<>>
    /\ funcs = {m.fn : m \in {PointArea, PtrPointArea, PtrPointScale}}
    /\ interfaceInvokeWrappers = <<>>
    /\ itf = NilInterface
    /\ boxed = NotBoxed
    /\ boxings = <<>>
    /\ sigRefs = {}
    /\ wrapperRefs = {}
    /\ ta = NoTa
    /\ operand = [itf |-> NilInterface, boxed |-> NotBoxed]
    /\ regs = UndefRegs
    /\ trace = <<>>
    /\ ipc = "idle"
    /\ nops = 0
    /\ funcValues = <<>>
    /\ MangleIdle
    /\ DeferIdle

\* The compiler reaches a MakeInterface instruction.
ParseMakeInterface(typ, val) ==
    /\ ipc = "idle"
    /\ nops < MaxOps
    /\ nops' = nops + 1
    /\ IF InvalidType(typ) \/ MissingFunction(Compiler, typ)
       THEN /\ ipc' = "panic"
            /\ UNCHANGED <<mod, funcs, interfaceInvokeWrappers, itf, boxed, boxings>>
       ELSE \E r \in {parseMakeInterface(Compiler, val, typ)} :
                /\ mod' = r.c.mod
                /\ funcs' = r.c.funcs
                /\ interfaceInvokeWrappers' = r.c.wrappers
                /\ itf' = r.ret
                /\ boxed' = [typ |-> typ, val |-> val]
                /\ boxings' = Append(boxings, [typ |-> typ, typecode |-> r.ret.typecode])
                /\ ipc' = "idle"
    /\ UNCHANGED <<sigRefs, wrapperRefs, ta, operand, regs, trace, funcValues, mangleVars,
                   deferVars>>

\* The compiler asks for the signature placeholder of a method.
GetMethodSignature(method) ==
    /\ ipc = "idle"
    /\ nops < MaxOps
    /\ nops' = nops + 1
    /\ \E r \in {getMethodSignature(Compiler, method)} :
           /\ mod' = r.c.mod
           /\ sigRefs' = sigRefs \cup {[method |-> method, global |-> r.ret]}
    /\ UNCHANGED <<funcs, interfaceInvokeWrappers, itf, boxed, boxings, wrapperRefs, ta, operand,
                   regs, trace, ipc, funcValues, mangleVars, deferVars>>

\* The compiler asks for the function to put into a method set for f.
GetInterfaceInvokeWrapper(f) ==
    /\ ipc = "idle"
    /\ nops < MaxOps
    /\ nops' = nops + 1
    /\ \E r \in {getInterfaceInvokeWrapper(Compiler, f)} :
           /\ funcs' = r.c.funcs
           /\ interfaceInvokeWrappers' = r.c.wrappers
           /\ wrapperRefs' = wrapperRefs \cup {[f |-> f, fn |-> r.ret]}
    /\ UNCHANGED <<mod, itf, boxed, boxings, sigRefs, ta, operand, regs, trace, ipc, funcValues,
                   mangleVars, deferVars>>

\* The compiler reaches a TypeAssert instruction on the interface value;
\* control then enters the emitted code.
ParseTypeAssert(asserted, commaOk) ==
    /\ ipc = "idle"
    /\ nops < MaxOps
    /\ nops' = nops + 1
    /\ IF parseTypeAssertPanics(Compiler, asserted)
       THEN /\ ipc' = "panic"
            /\ UNCHANGED <<mod, ta, operand, regs, trace>>
       ELSE \E r \in {parseTypeAssert(Compiler, asserted, commaOk)} :
                /\ mod' = r.c.mod
                /\ ta' = r.ret
                /\ operand' = [itf |-> itf, boxed |-> boxed]
                /\ regs' = UndefRegs
                /\ trace' = <<>>
                /\ ipc' = "entry"
    /\ UNCHANGED <<funcs, interfaceInvokeWrappers, itf, boxed, boxings, sigRefs, wrapperRefs,
                   funcValues, mangleVars, deferVars>>

\* The emitted code runs one basic block.
ExecBlock ==
    /\ ipc \in {"entry", "ok", "next"}
    /\ \E st \in {ExecInstrs(mod, operand.itf, ipc, ta.code[ipc],
                             [regs |-> regs, trace |-> trace, goto |-> ""])} :
           /\ trace' = st.trace
           /\ IF st.goto = ""
              THEN /\ regs' = [st.regs EXCEPT
                                  !.result = IF ta.ret = "tuple" THEN st.regs.tuple
                                             ELSE st.regs.phi,
                                  !.done = TRUE]
                   /\ ipc' = "idle"
              ELSE /\ regs' = st.regs
                   /\ ipc' = st.goto
    /\ UNCHANGED <<mod, funcs, interfaceInvokeWrappers, itf, boxed, boxings, sigRefs, wrapperRefs,
                   ta, operand, nops, funcValues, mangleVars, deferVars>>

ItfNext ==
    \/ \E typ \in ConcreteTypes \cup {CgoUnion3}, val \in Values : ParseMakeInterface(typ, val)
    \/ \E method \in AllMethods : GetMethodSignature(method)
    \/ \E f \in ProgramMethods : GetInterfaceInvokeWrapper(f)
    \/ \E asserted \in ConcreteTypes \cup InterfaceTypes, commaOk \in BOOLEAN :
          ParseTypeAssert(asserted, commaOk)
    \/ ExecBlock

(***************************************************************************)
(* MangleSpec                                                              *)
(***************************************************************************)
MangleInit ==
    /\ mpc = "start"
    /\ mt1 \in MangleTypes
    /\ mt2 \in MangleTypes
    /\ mn1 = ""
    /\ mn2 = ""
    /\ ItfIdle
    /\ DeferIdle

\* The call getTypeCodeName(mt1) returns.
MangleFirst ==
    /\ mpc = "start"
    /\ ~InvalidType(mt1)
    /\ mn1' = getTypeCodeName(mt1)
    /\ mpc' = "first"
    /\ UNCHANGED <<mt1, mt2, mn2, itfVars, deferVars>>

\* The call getTypeCodeName(mt2) returns.
MangleSecond ==
    /\ mpc = "first"
    /\ ~InvalidType(mt2)
    /\ mn2' = getTypeCodeName(mt2)
    /\ mpc' = "done"
    /\ UNCHANGED <<mt1, mt2, mn1, itfVars, deferVars>>

\* The pending call panics.
ManglePanic ==
    /\ \/ mpc = "start" /\ InvalidType(mt1)
       \/ mpc = "first" /\ InvalidType(mt2)
    /\ mpc' = "panic"
    /\ UNCHANGED <<mt1, mt2, mn1, mn2, itfVars, deferVars>>

MangleNext == MangleFirst \/ MangleSecond \/ ManglePanic

MangleSpec == MangleInit /\ [][MangleNext]_vars

ItfSpec == ItfInit /\ [][ItfNext]_vars

(***************************************************************************)
(* Claims about getTypeCodeName                                            *)
(***************************************************************************)

\* The components of a type that the identity of the claim C7 names: the
\* constructor, the name of a named type, the basic kind, the array length
\* and the element, key, field, parameter and result types, recursively.
\* Field and method names are not among them.
RECURSIVE Identity(_)
Identity(t) ==
    [con |-> t.con, name |-> t.name, kind |-> t.kind, len |-> t.len,
     elems |-> [i \in 1..Len(t.elems) |-> Identity(t.elems[i])],
     results |-> [i \in 1..Len(t.results) |-> Identity(t.results[i])]]

\* C7: two types with the same structure and the same named wrapping get the
\* same identifier, and two types that differ in a component (constructor,
\* element type, array length, field or parameter type, name) get different
\* identifiers.
C7_StructuralIdentity ==
    mpc = "done" => ((mn1 = mn2) <=> (Identity(mt1) = Identity(mt2)))

\* Both identifiers are computed for two arrays that differ in length only.
C7_Witness ==
    /\ mpc = "done"
    /\ mt1 = Array(1, Named("pkg.A", Int8))
    /\ mt2 = Array(2, Named("pkg.A", Int8))
    /\ mn1 # mn2

\* C8 as stated: the identifier of a named type is the identifier of its
\* underlying type behind a leading ~<qualified name>: segment.
C8_LeadingSegment ==
    (mpc = "done" /\ mt1.name # "" /\ mt2 = Underlying(mt1))
        => /\ mn1 = "~" \o mt1.name \o ":" \o mn2
           /\ (mt1 = Point => mn1 = "~pkg.Point:struct:{basic:int32,basic:int32}")

\* C8 as amended: the identifier of a named type is the identifier of its
\* underlying type with the ~<qualified name>: segment inserted right after
\* the leading constructor tag; pkg.Point over struct{int32,int32} is
\* struct:~pkg.Point:{basic:int32,basic:int32}, the unnamed struct is
\* struct:{basic:int32,basic:int32}, and the names of their typecode globals
\* differ.
C8_SegmentAfterTag ==
    (mpc = "done" /\ mt1.name # "" /\ mt2 = Underlying(mt1))
        => LET tag == mt1.con \o ":"
           IN  /\ SubSeq(mn2, 1, Len(tag)) = tag
               /\ mn1 = tag \o "~" \o mt1.name \o ":" \o SubSeq(mn2, Len(tag) + 1, Len(mn2))
               /\ "type:" \o mn1 # "type:" \o mn2
               /\ mt1 = Point =>
                    /\ mn1 = "struct:~pkg.Point:{basic:int32,basic:int32}"
                    /\ mn2 = "struct:{basic:int32,basic:int32}"

\* The identifiers of pkg.Point and of its underlying struct are computed.
C8_Witness ==
    /\ mpc = "done"
    /\ mt1 = Point
    /\ mt2 = PointStruct
    /\ mn1 # mn2

\* A struct whose first field carries the reserved name of a cgo union.
IsCgoUnion(t) == t.con = "struct" /\ Len(t.elems) >= 1 /\ t.fnames[1] = CUnion

\* C12: getTypeCodeName fails for every struct whose first field is named
\* `C union`, whatever its number of fields: none gets an identifier.
C12_CgoUnionRejected ==
    IsCgoUnion(Underlying(mt1)) => mpc \notin {"first", "done"}

\* A cgo union of two fields has got an identifier.
C12_Witness ==
    /\ mt1 = Struct(<<Int8, Int32>>, FieldNames(2, CUnion))
    /\ mpc = "first"
    /\ mn1 = "struct:{basic:int8,basic:int32}"

(***************************************************************************)
(* Claims about the interface-value encoder                                *)
(***************************************************************************)
GlobalsOfKind(kind) == {i \in 1..Len(mod) : mod[i].kind = kind}

\* C4: every boxing of a type T puts the address of the one global
\* typeInInterface:type:<identifier of T> into the typecode slot; no two
\* typeInInterface globals describe one typecode placeholder, and boxing T
\* again adds no global.
C4_TypecodeInterning ==
    /\ \A i \in 1..Len(boxings) :
          /\ mod[boxings[i].typecode].kind = "typeInInterface"
          /\ mod[boxings[i].typecode].name
                = "typeInInterface:type:" \o getTypeCodeName(boxings[i].typ)
    /\ \A i, j \in 1..Len(boxings) :
          boxings[i].typ = boxings[j].typ => boxings[i].typecode = boxings[j].typecode
    /\ \A i, j \in GlobalsOfKind("typeInInterface") :
          mod[i].init[1] = mod[j].init[1] => i = j
    /\ Cardinality(GlobalsOfKind("typeInInterface"))
          <= Cardinality({boxings[i].typ : i \in 1..Len(boxings)})

\* pkg.Point, a type with a method set, has been boxed twice.
C4_Witness ==
    /\ Len(boxings) >= 2
    /\ boxings[1].typ = Point
    /\ boxings[2].typ = Point
    /\ ipc = "idle"

\* The emitted assertion has run to its end / has executed the instruction.
Executed(op) == \E i \in 1..Len(trace) : trace[i] = op
ConcreteAssertionDone == regs.done /\ ~IsInterface(ta.asserted)

ReadsValueSlot(op) == op \in {"extract.value", "unpack"}

\* C6: for a concrete asserted type the value slot is read in typeassert.ok
\* only, behind the branch on the flag: when the flag is false no read of the
\* value slot is executed and the value of the assertion is the zero value.
C6_BranchBeforeUnbox ==
    (ta.asserted # NoType /\ ~IsInterface(ta.asserted))
        => /\ \A i \in 1..Len(ta.code.entry) : ~ReadsValueSlot(ta.code.entry[i].op)
           /\ \A i \in 1..Len(ta.code.next) : ~ReadsValueSlot(ta.code.next[i].op)
           /\ ta.code.entry[Len(ta.code.entry)].op = "condbr"
           /\ (Executed("call.typeAssert") /\ ~regs.commaOk)
                 => /\ \A i \in 1..Len(trace) : ~ReadsValueSlot(trace[i])
                    /\ Executed("phi") => regs.phi = getZeroValue(ta.asserted)

\* A failing assertion of a boxed pkg.Point to int32 has run to its end.
C6_Witness ==
    /\ ConcreteAssertionDone
    /\ operand.boxed.typ = Point
    /\ ta.asserted = Int32
    /\ ~regs.commaOk
    /\ Executed("phi")

\* The signature identity of a method: its name, its parameter types and its
\* result types in order.
SignatureIdentity(method) == <<method.name, method.params, method.results>>

\* C9: the module holds at most one `func <signature>` global per signature
\* identity, and two methods get the same placeholder exactly when their
\* signature identities are the same.
C9_SignatureInterning ==
    /\ \A r1, r2 \in sigRefs :
          (r1.global = r2.global)
             <=> (SignatureIdentity(r1.method) = SignatureIdentity(r2.method))
    /\ \A r \in sigRefs : mod[r.global].kind = "signature"
    /\ \A i \in GlobalsOfKind("signature") :
          \E m \in AllMethods : mod[i].name = "func " \o MethodSignature(m)
    /\ Cardinality(GlobalsOfKind("signature"))
          <= Cardinality({SignatureIdentity(m) : m \in AllMethods})

\* Area() int32 of pkg.Point and of *pkg.Point share a placeholder that
\* Area() int8 of pkg.Sizer does not.
C9_Witness ==
    \E r1, r2, r3 \in sigRefs :
        /\ r1.method = PointArea
        /\ r2.method = PtrPointArea
        /\ r3.method = InterfaceMethod(Sizer, 1)
        /\ r1.global = r2.global
        /\ r3.global # r1.global

IsTrapCall(in) == in.op = "call.interfaceTypeAssert"
AllInstrs(code) == code.entry \o code.ok \o code.next

\* C10: a comma-ok assertion returns the (result, flag) pair and emits no
\* trap; an assertion without comma-ok emits runtime.interfaceTypeAssert(flag)
\* once, after the phi, and returns the result alone; the trap aborts exactly
\* when the flag is false.
C10_CommaOkOrTrap ==
    ta.asserted # NoType
        => /\ ta.commaOk
                => /\ ta.ret = "tuple"
                   /\ \A i \in 1..Len(AllInstrs(ta.code)) : ~IsTrapCall(AllInstrs(ta.code)[i])
                   /\ ipc # "trap"
                   /\ regs.done => regs.result = <<regs.phi, regs.commaOk>>
           /\ ~ta.commaOk
                => /\ ta.ret = "phi"
                   /\ Cardinality({i \in 1..Len(AllInstrs(ta.code)) :
                                    IsTrapCall(AllInstrs(ta.code)[i])}) = 1
                   /\ IsTrapCall(ta.code.next[Len(ta.code.next)])
                   /\ ipc = "trap" => ~regs.commaOk
                   /\ regs.done => regs.commaOk /\ regs.result = regs.phi

\* An assertion without comma-ok has failed and the trap has aborted.
C10_Witness ==
    /\ ipc = "trap"
    /\ ~ta.commaOk
    /\ operand.boxed.typ = Int8
    /\ ta.asserted = Int32

(***************************************************************************)
(* DeferSpec: one function is compiled, then one activation of it runs     *)
(***************************************************************************)
DeferInit ==
    /\ dpc = "init"
    /\ defers \in DeferFunctions
    /\ frame = NoFrame
    /\ errors = <<>>
    /\ body = <<>>
    /\ rundefers = <<>>
    /\ deferPtr = Null
    /\ allocas = <<>>
    /\ executed = <<>>
    /\ deferData = Null
    /\ callback = 0
    /\ invoked = <<>>
    /\ MangleIdle
    /\ ItfIdle

\* The entry block of a function that holds defer statements is set up.
DeferInitFunc ==
    /\ dpc = "init"
    /\ frame' = deferInitFunc(frame)
    /\ dpc' = "compile"
    /\ UNCHANGED <<defers, errors, body, rundefers, deferPtr, allocas, executed, deferData, callback,
                   invoked, mangleVars, itfVars>>

\* The compiler reaches the next defer statement.
EmitDefer ==
    /\ dpc = "compile"
    /\ Len(body) < Len(defers)
    /\ \E r \in {emitDefer(frame, defers[Len(body) + 1])} :
          /\ frame' = r.frame
          /\ body' = Append(body, r.code)
          /\ errors' = IF r.error
                       THEN Append(errors,
                                   [pos |-> Len(body) + 1,
                                    msg |-> "todo: defer on uncommon function call type"])
                       ELSE errors
    /\ UNCHANGED <<defers, dpc, rundefers, deferPtr, allocas, executed, deferData, callback, invoked,
                   mangleVars, itfVars>>

\* The compiler reaches the return of the function; a compilation with
\* errors produces no program to run.
EmitRunDefers ==
    /\ dpc = "compile"
    /\ Len(body) = Len(defers)
    /\ rundefers' = emitRunDefers(frame)
    /\ dpc' = IF errors = <<>> THEN "entry" ELSE "rejected"
    /\ UNCHANGED <<defers, frame, errors, body, deferPtr, allocas, executed, deferData, callback,
                   invoked, mangleVars, itfVars>>

\* An activation of the function runs the entry block.
Enter ==
    /\ dpc = "entry"
    /\ deferPtr' \in EntryStores(frame.entry)
    /\ dpc' = "body"
    /\ UNCHANGED <<defers, frame, errors, body, rundefers, allocas, executed, deferData, callback,
                   invoked, mangleVars, itfVars>>

\* The activation runs the code of the defer statement s.
RunDefer(s) ==
    /\ dpc = "body"
    /\ s \in 1..Len(body)
    /\ Len(allocas) < MaxExec
    /\ \E addr \in {Len(allocas) + 1} :
          /\ allocas' = Append(allocas,
                               [i \in 1..Len(body[s].values) |->
                                   OperandValue(body[s].values[i], deferPtr, addr)])
          /\ deferPtr' = OperandValue(body[s].store, deferPtr, addr)
    /\ executed' = Append(executed, s)
    /\ UNCHANGED <<defers, dpc, frame, errors, body, rundefers, deferData, callback, invoked,
                   mangleVars, itfVars>>

\* The function body is over: br rundefers.loophead.
Return ==
    /\ dpc = "body"
    /\ dpc' = "loophead"
    /\ UNCHANGED <<defers, frame, errors, body, rundefers, deferPtr, allocas, executed, deferData,
                   callback, invoked, mangleVars, itfVars>>

\* rundefers.loophead: load deferPtr and leave the loop if it is null.
LoopHead ==
    /\ dpc = "loophead"
    /\ deferData' = deferPtr
    /\ dpc' = IF deferPtr = Null THEN "end" ELSE "loop"
    /\ UNCHANGED <<defers, frame, errors, body, rundefers, deferPtr, allocas, executed, callback,
                   invoked, mangleVars, itfVars>>

\* rundefers.loop without the store of stack.next to deferPtr.
LoopKeepsHead ==
    /\ dpc = "loop"
    /\ callback' = allocas[deferData][1]
    /\ dpc' = IF allocas[deferData][1] \in 0..(Len(rundefers) - 1)
              THEN "callback" ELSE "unreachable"
    /\ UNCHANGED <<defers, frame, errors, body, rundefers, deferPtr, allocas, executed, deferData,
                   invoked, mangleVars, itfVars>>

\* rundefers.loop: store stack.next to deferPtr, load the callback and switch
\* on it.
Loop ==
    /\ dpc = "loop"
    /\ deferPtr' = allocas[deferData][2]
    /\ callback' = allocas[deferData][1]
    /\ dpc' = IF allocas[deferData][1] \in 0..(Len(rundefers) - 1)
              THEN "callback" ELSE "unreachable"
    /\ UNCHANGED <<defers, frame, errors, body, rundefers, allocas, executed, deferData, invoked,
                   mangleVars, itfVars>>

\* rundefers.callback: the arm of the loaded callback loads its parameters
\* from the frame, calls the deferred function and branches.
Callback ==
    /\ dpc = "callback"
    /\ \E arm \in {rundefers[callback + 1]} :
          /\ invoked' = Append(invoked,
                               [frame |-> deferData,
                                fn |-> Callee(arm.fn),
                                params |-> [i \in 1..Len(arm.fields) |->
                                               IF arm.fields[i] \in DOMAIN allocas[deferData]
                                               THEN allocas[deferData][arm.fields[i]]
                                               ELSE Undef]
                                           \o arm.tail])
          /\ dpc' = arm.br
    /\ UNCHANGED <<defers, frame, errors, body, rundefers, deferPtr, allocas, executed, deferData,
                   callback, mangleVars, itfVars>>

DeferNext ==
    \/ DeferInitFunc
    \/ EmitDefer
    \/ EmitRunDefers
    \/ Enter
    \/ \E s \in 1..MaxStatements : RunDefer(s)
    \/ Return
    \/ LoopHead
    \/ Loop
    \/ Callback

DeferSpec == DeferInit /\ [][DeferNext]_vars

\* The emitted code runs on: a block of the dispatcher that control has
\* entered is executed to its terminator.
FairDeferSpec ==
    DeferSpec /\ WF_vars(LoopHead) /\ WF_vars(Loop) /\ WF_vars(Callback)

(***************************************************************************)
(* Claims about the defer frames                                           *)
(***************************************************************************)
\* C1: the dispatcher invokes the pushed frames in the reverse of the order
\* in which the defer statements pushed them: the i-th call it makes is for
\* the i-th frame from the last one pushed, and when it is over every pushed
\* frame has been called.
C1_DeferLIFO ==
    /\ \A i \in 1..Len(invoked) : invoked[i].frame = Len(allocas) - i + 1
    /\ Len(invoked) <= Len(allocas)
    /\ dpc = "end" => Len(invoked) = Len(allocas)

\* A function, an interface method and a closure were deferred, in this
\* order, and the dispatcher has run the three.
C1_Witness ==
    /\ dpc = "end"
    /\ Len(invoked) = 3
    /\ executed = <<1, 2, 3>>
    /\ frame.allDeferFuncs = <<DeferB, DeferYM, DeferC>>
    /\ invoked[1].fn.method = DeferC.callee

\* C2: the dispatcher loop terminates: once at rundefers.loophead control
\* reaches rundefers.end, and at rundefers.end deferPtr is null and every
\* pushed frame has been invoked exactly once.
C2_DispatcherTerminates ==
    /\ [](dpc = "end"
            => /\ deferPtr = Null
               /\ \A a \in 1..Len(allocas) :
                     Cardinality({i \in 1..Len(invoked) : invoked[i].frame = a}) = 1)
    /\ (dpc = "loophead" ~> dpc = "end")

\* The dispatcher is at rundefers.end after a chain of three frames.
C2_Witness ==
    /\ dpc = "end"
    /\ Len(allocas) = 3
    /\ Len(invoked) = 3
    /\ deferPtr = Null

\* C3: while the function body runs, deferPtr is null exactly when no defer
\* statement has been executed in the activation.
C3_HeadNullIffNoDefer ==
    dpc = "body" => ((deferPtr = Null) <=> (executed = <<>>))

\* A defer statement has been executed and the body still runs.
C3_Witness ==
    /\ dpc = "body"
    /\ Len(executed) = 1
    /\ deferPtr # Null

\* The statement the compiler is at is a defer of a call that is neither an
\* invoke, nor a call of a function, nor of a MakeClosure.
AtUncommonDefer ==
    /\ dpc = "compile"
    /\ Len(body) < Len(defers)
    /\ defers[Len(body) + 1].kind \notin {"invoke", "function", "closure"}

\* C11: emitDefer at a call of an uncommon form records one error with the
\* position of the statement and returns: the statement's code builds no
\* frame and stores nothing to deferPtr, the Frame (allDeferFuncs and the
\* three index maps) is unchanged, and the compilation goes on.
C11_UncommonDeferRecordsError ==
    [][(AtUncommonDefer /\ body' # body)
          => /\ errors' = Append(errors,
                                 [pos |-> Len(body) + 1,
                                  msg |-> "todo: defer on uncommon function call type"])
             /\ frame' = frame
             /\ body' = Append(body, DeferCode(<<>>, Operand("none", 0)))
             /\ dpc' = "compile"]_vars

\* A defer through a function value has been compiled, and the defer of
\* pkg.B after it.
C11_Witness ==
    /\ defers = <<DeferFuncValue, DeferB>>
    /\ Len(body) = 2
    /\ Len(errors) = 1
    /\ errors[1].pos = 1
    /\ frame.allDeferFuncs = <<DeferB>>

\* The callback indices that the map holds.
Indices(map) == {frame[map][k] : k \in DOMAIN frame[map]}

\* C19: the callback index embedded in every frame is an index of
\* allDeferFuncs and selects the entry registered for the frame's callee; the
\* indices of the three maps are pairwise distinct and together are exactly
\* 0..len(allDeferFuncs)-1; the dispatcher never takes the unreachable arm.
C19_CallbackIndexValid ==
    /\ \A s \in 1..Len(body) :
          body[s].values # <<>>
             => /\ body[s].values[1].src = "const"
                /\ body[s].values[1].of \in 0..(Len(frame.allDeferFuncs) - 1)
                /\ frame.allDeferFuncs[body[s].values[1].of + 1].callee = defers[s].callee
                /\ frame.allDeferFuncs[body[s].values[1].of + 1].kind = defers[s].kind
    /\ \A m \in {"deferFuncs", "deferInvokeFuncs", "deferClosureFuncs"} :
          Cardinality(Indices(m)) = Cardinality(DOMAIN frame[m])
    /\ Indices("deferFuncs") \cap Indices("deferInvokeFuncs") = {}
    /\ Indices("deferFuncs") \cap Indices("deferClosureFuncs") = {}
    /\ Indices("deferInvokeFuncs") \cap Indices("deferClosureFuncs") = {}
    /\ Indices("deferFuncs") \cup Indices("deferInvokeFuncs") \cup Indices("deferClosureFuncs")
          = 0..(Len(frame.allDeferFuncs) - 1)
    /\ dpc # "unreachable"

\* x.M(), a closure and y.M() were deferred: the two invokes share index 0,
\* the closure has index 1, and the dispatcher has run the three frames.
C19_Witness ==
    /\ defers = <<DeferXM, DeferC, DeferYM>>
    /\ dpc = "end"
    /\ executed = <<1, 2, 3>>
    /\ [s \in 1..3 |-> body[s].values[1].of] = <<0, 1, 0>>
    /\ Len(frame.allDeferFuncs) = 2
    /\ Len(invoked) = 3

\* The parameters of the extended calling convention that follow the loaded
\* fields in a call of a deferred call of the given kind.
TrailingParams(kind) == IF kind = "closure" THEN <<Undef>> ELSE <<Undef, Undef>>

\* The values the defer statement instr stores after callback and next when
\* it runs with the new alloca at address addr.
StoredAfterNext(instr, addr) ==
    LET args == [i \in 1..instr.nargs |-> [typ |-> Int32, val |-> addr]]
    IN  CASE instr.kind = "invoke" -> <<DeferEnv[instr.value].value>> \o args
          [] instr.kind = "function" -> args
          [] instr.kind = "closure" -> args \o <<DeferEnv[instr.value].context>>

C21_UnlinkedBeforeCallback ==
    /\ [](dpc = "callback"
            => /\ deferPtr = allocas[deferData][2]
               /\ deferPtr = deferData - 1
               /\ deferPtr # deferData)
    /\ [][Len(invoked') > Len(invoked)
            => /\ invoked'[Len(invoked')].frame = deferData
               /\ deferPtr = deferData - 1
               /\ deferPtr' = deferPtr]_vars

\* Three frames were pushed; the dispatcher has run the last one and is in
\* the arm of the second, with deferPtr at the first.
C21_Witness ==
    /\ dpc = "callback"
    /\ Len(allocas) = 3
    /\ Len(invoked) = 1
    /\ deferData = 2
    /\ deferPtr = 1

\* C22: a deferred interface method call is dispatched on the typecode of
\* the interface value of the frame's own defer site, the value whose
\* receiver the frame stores.
C22_InvokeUsesOwnTypecode ==
    \A i \in 1..Len(invoked) :
        LET a == invoked[i].frame
            instr == defers[executed[a]]
        IN  instr.kind = "invoke"
               => /\ invoked[i].params[1] = DeferEnv[instr.value].value
                  /\ invoked[i].fn
                        = interfaceMethod(DeferEnv[instr.value].typecode, instr.callee)

\* x.M() and y.M() were deferred in this order and the frame of y.M() has
\* been run: the call has the receiver of y and the typecode of x.
C22_Witness ==
    /\ defers = <<DeferXM, DeferYM>>
    /\ executed = <<1, 2>>
    /\ Len(invoked) >= 1
    /\ invoked[1].frame = 2
    /\ invoked[1].params[1] = DeferEnv.y.value
    /\ invoked[1].fn = interfaceMethod(DeferEnv.x.typecode, "(pkg.I).M")

(***************************************************************************)
(* Claims about method sets and invoke wrappers                            *)
(***************************************************************************)
\* The wrappers queued for the function fn.
QueuedFor(fn) ==
    {i \in 1..Len(interfaceInvokeWrappers) : interfaceInvokeWrappers[i].fn = fn}

\* What a method set holds for the method f.
MethodSetFunction(f) == IF ReceiverIsPointer(f.recv) THEN f.fn ELSE f.fn \o "$invoke"

\* C13: for a method whose receiver is one pointer no $invoke function is
\* declared, nothing is queued, and requests and method-set entries get the
\* function itself; for an other method every request and method-set entry
\* gets the $invoke wrapper, which is declared once and queued exactly once
\* however often it is asked for.
C13_WrapperElision ==
    /\ \A f \in ProgramMethods :
          /\ ReceiverIsPointer(f.recv)
                => (f.fn \o "$invoke") \notin funcs /\ QueuedFor(f.fn) = {}
          /\ Cardinality(QueuedFor(f.fn)) = IF (f.fn \o "$invoke") \in funcs THEN 1 ELSE 0
    /\ \A r \in wrapperRefs :
          /\ r.fn = MethodSetFunction(r.f)
          /\ r.fn \in funcs
    /\ \A typ \in ConcreteTypes :
          \A g \in {NamedGlobal(mod, TypeString(typ) \o "$methodset")} \ {Null} :
              /\ Len(mod[g].init) = Len(MethodSetOf(typ))
              /\ \A i \in 1..Len(mod[g].init) :
                    /\ mod[g].init[i].fn = MethodSetFunction(MethodSetOf(typ)[i])
                    /\ mod[g].init[i].fn \in funcs

\* The wrapper of pkg.Point.Area was asked for twice, and pkg.Point was
\* boxed.
C13_Witness ==
    /\ nops = 3
    /\ sigRefs = {}
    /\ ta = NoTa
    /\ Len(boxings) = 1
    /\ boxings[1].typ = Point
    /\ wrapperRefs = {[f |-> PointArea, fn |-> "pkg.Point.Area$invoke"]}
    /\ Cardinality(QueuedFor("pkg.Point.Area")) = 1

\* The $methodset global of a concrete type and the $interface global of an
\* interface type, or Null.
MethodSetGlobal(typ) == NamedGlobal(mod, TypeString(typ) \o "$methodset")
ShapeGlobal(typ) == NamedGlobal(mod, TypeString(typ) \o "$interface")

\* The step boxes a value of a type whose method set is in the module, or
\* emits an assertion to an interface type whose shape is in the module.
BoxesAgain ==
    /\ Len(boxings') = Len(boxings) + 1
    /\ MethodSetGlobal(boxed'.typ) # Null
AssertsAgain ==
    /\ ipc = "idle"
    /\ ipc' = "entry"
    /\ IsInterface(ta'.asserted)
    /\ ShapeGlobal(ta'.asserted) # Null

\* C14: a call of getTypeMethodSet or getInterfaceMethodSet for a type whose
\* global an earlier call created returns that global, adds no global and
\* leaves the module unchanged; every $methodset and $interface global
\* carries the name of its type, so none is a renamed second global.
C14_MethodSetIdempotent ==
    [][/\ BoxesAgain
            => /\ mod' = mod
               /\ funcs' = funcs
               /\ interfaceInvokeWrappers' = interfaceInvokeWrappers
               /\ mod[mod[itf'.typecode].init[2]].name = TypeString(boxed'.typ) \o "$methodset"
       /\ AssertsAgain
            => /\ mod' = mod
               /\ \E i \in 1..Len(ta'.code.entry) :
                     /\ ta'.code.entry[i].op = "call.interfaceImplements"
                     /\ ta'.code.entry[i].arg = ShapeGlobal(ta'.asserted)
       /\ \A g \in 1..Len(mod') :
             /\ mod'[g].kind = "methodset"
                   => \E typ \in ConcreteTypes : mod'[g].name = TypeString(typ) \o "$methodset"
             /\ mod'[g].kind = "interface"
                   => \E typ \in InterfaceTypes : mod'[g].name = TypeString(typ) \o "$interface"
      ]_vars

\* pkg.Point was boxed twice and an assertion to pkg.Shape was emitted: the
\* module holds one method set of pkg.Point and the shape of pkg.Shape.
C14_Witness ==
    /\ Len(boxings) = 2
    /\ boxings[1].typ = Point
    /\ boxings[2].typ = Point
    /\ ta.asserted = Shape
    /\ Cardinality(GlobalsOfKind("methodset")) = 1
    /\ NamedGlobal(mod, "pkg.Shape$interface") # Null

\* C15: for a concrete type without methods getTypeMethodSet returns null
\* and creates no $methodset global: the typeInInterface global of such a
\* type holds a null method set, and boxing such a type in an empty module
\* leaves exactly the two globals type:<id> and typeInInterface:type:<id>.
C15_NoMethodsNoMethodSet ==
    /\ \A i \in 1..Len(boxings) :
          MethodSetOf(boxings[i].typ) = <<>>
              => /\ mod[boxings[i].typecode].init[2] = Null
                 /\ MethodSetGlobal(boxings[i].typ) = Null
    /\ \A typ \in ConcreteTypes :
          (nops = 1 /\ boxings # <<>> /\ boxed.typ = typ /\ MethodSetOf(typ) = <<>>)
              => [i \in 1..Len(mod) |-> mod[i].name]
                    = <<"type:" \o getTypeCodeName(typ),
                        "typeInInterface:type:" \o getTypeCodeName(typ)>>

\* An int8 was boxed in the empty module.
C15_Witness ==
    /\ nops = 1
    /\ boxed.typ = Int8
    /\ Len(mod) = 2
    /\ mod[1].name = "type:basic:int8"
    /\ mod[2].name = "typeInInterface:type:basic:int8"
    /\ mod[2].init = <<1, Null>>

\* The names of the signature placeholders of the entries of the method set
\* global g, in order.
EntrySignatures(g) == [i \in 1..Len(mod[g].init) |-> mod[mod[g].init[i].signature].name]

\* C16: the entries of a concrete type's method set are in the order in which
\* the program declares the methods, one entry per method.
C16_DeclarationOrder ==
    \A typ \in ConcreteTypes :
        \A g \in {MethodSetGlobal(typ)} \ {Null} :
            EntrySignatures(g)
                = [i \in 1..Len(DeclaredMethodsOf(typ)) |->
                      "func " \o MethodSignature(DeclaredMethodsOf(typ)[i])]

\* A *pkg.Point was boxed: its method set lists Area before Scale.
C16_Witness ==
    /\ boxed.typ = Pointer(Point)
    /\ MethodSetGlobal(Pointer(Point)) # Null
    /\ EntrySignatures(MethodSetGlobal(Pointer(Point)))
          = <<"func Area() int32", "func Scale(int32)">>

(***************************************************************************)
(* FuncSpec: createFuncValue calls on one module                           *)
(***************************************************************************)
\* An empty module in which the functions of the program are declared.
FuncInit ==
    /\ mod = <<>>
    /\ funcs = {f.fn : f \in FuncDecls}
    /\ interfaceInvokeWrappers = <<>>
    /\ itf = NilInterface
    /\ boxed = NotBoxed
    /\ boxings = <<>>
    /\ sigRefs = {}
    /\ wrapperRefs = {}
    /\ ta = NoTa
    /\ operand = [itf |-> NilInterface, boxed |-> NotBoxed]
    /\ regs = UndefRegs
    /\ trace = <<>>
    /\ ipc = "func"
    /\ nops = 0
    /\ funcValues = <<>>
    /\ MangleIdle
    /\ DeferIdle

\* The compiler makes a func value of the function f with the given context.
CreateFuncValue(f, context) ==
    /\ ipc = "func"
    /\ nops < MaxOps
    /\ nops' = nops + 1
    /\ \E r \in {createFuncValue(Compiler, f.fn, context, f.sig)} :
          /\ mod' = r.c.mod
          /\ funcValues' = Append(funcValues, [fn |-> f.fn, context |-> context, value |-> r.ret])
    /\ UNCHANGED <<funcs, interfaceInvokeWrappers, itf, boxed, boxings, sigRefs, wrapperRefs, ta,
                   operand, regs, trace, ipc, mangleVars, deferVars>>

FuncNext == \E f \in FuncDecls, context \in FuncContexts : CreateFuncValue(f, context)

FuncSpec == FuncInit /\ [][FuncNext]_vars

(***************************************************************************)
(* Claims about function values                                            *)
(***************************************************************************)
\* The `$withSignature` globals made for the function fn.
WithSignatureGlobals(fn) ==
    {g \in 1..Len(mod) : mod[g].kind = "funcValueWithSignature" /\ mod[g].init[1] = fn}

\* C17: two func values have the same scalar exactly when they were made
\* from the same function, whatever their contexts; the scalar is the address
\* of the function's `$withSignature` global, and the module holds at most
\* one such global per function.
C17_FuncValueEquality ==
    /\ \A i, j \in 1..Len(funcValues) :
          (extractFuncScalar(funcValues[i].value) = extractFuncScalar(funcValues[j].value))
             <=> (funcValues[i].fn = funcValues[j].fn)
    /\ \A i \in 1..Len(funcValues) :
          /\ extractFuncScalar(funcValues[i].value)
                = NamedGlobal(mod, funcValues[i].fn \o "$withSignature")
          /\ extractFuncScalar(funcValues[i].value) \in WithSignatureGlobals(funcValues[i].fn)
    /\ \A f \in FuncDecls : Cardinality(WithSignatureGlobals(f.fn)) <= 1

\* pkg.A was made a func value with two contexts, and pkg.f$1, of the same
\* signature, with one.
C17_Witness ==
    \E i, j, k \in 1..Len(funcValues) :
        /\ funcValues[i].fn = "pkg.A" /\ funcValues[j].fn = "pkg.A"
        /\ funcValues[i].value.context # funcValues[j].value.context
        /\ funcValues[i].value.scalar = funcValues[j].value.scalar
        /\ funcValues[k].fn = "pkg.f$1"
        /\ funcValues[k].value.scalar # funcValues[i].value.scalar

(***************************************************************************)
(* Claims about assertions to interface types                              *)
(***************************************************************************)
\* The step is parseTypeAssert of an assertion to the type J.
AssertsTo(J, commaOk) ==
    /\ ipc' = "entry" \/ parseTypeAssertPanics(Compiler, J)
    /\ ParseTypeAssert(J, commaOk)

\* C18: parseTypeAssert completes for every interface type J, named or not
\* and with any number of methods; it emits interfaceImplements(typecode,
\* shape_of(J)), the shape holding one signature placeholder per method of J,
\* and the ok block hands the interface value on as it is.
C18_InterfaceAssertCompletes ==
    [][\A J \in InterfaceTypes, commaOk \in BOOLEAN :
          AssertsTo(J, commaOk)
             => /\ ipc' = "entry"
                /\ ShapeGlobal(J)' # Null
                /\ ta'.code.entry[2] = Instr("call.interfaceImplements", ShapeGlobal(J)')
                /\ Len(mod'[ShapeGlobal(J)'].init) = Len(J.elems)
                /\ ta'.code.ok[1] = Instr("same.itf", 0)]_vars

(***************************************************************************)
(* BoxSpec: parseMakeInterface calls on unnamed struct types               *)
(***************************************************************************)
\* The types boxed: pkg.Point, struct{ Point }, struct{ P Point } and
\* struct{X, Y int32}.
BoxTypes == {Point, EmbedsPoint, HoldsPoint, PointStruct}

\* An empty module in which the functions of the methods are declared.
BoxInit ==
    /\ mod = <<>>
    /\ funcs = {m.fn : m \in {PointArea, EmbedsPointArea}}
    /\ interfaceInvokeWrappers = <<>>
    /\ itf = NilInterface
    /\ boxed = NotBoxed
    /\ boxings = <<>>
    /\ sigRefs = {}
    /\ wrapperRefs = {}
    /\ ta = NoTa
    /\ operand = [itf |-> NilInterface, boxed |-> NotBoxed]
    /\ regs = UndefRegs
    /\ trace = <<>>
    /\ ipc = "idle"
    /\ nops = 0
    /\ funcValues = <<>>
    /\ MangleIdle
    /\ DeferIdle

BoxNext == \E typ \in BoxTypes, val \in Values : ParseMakeInterface(typ, val)

BoxSpec == BoxInit /\ [][BoxNext]_vars

(***************************************************************************)
(* Claims about the typeInInterface descriptors                            *)
(***************************************************************************)
\* C23: the descriptor in the typecode slot of every boxed value of a type T
\* pairs the typecode placeholder of T with the method set of T, which is
\* null exactly when T has no methods.
C23_DescriptorPairsOwnMethodSet ==
    \A i \in 1..Len(boxings) :
        /\ mod[boxings[i].typecode].init[1]
              = NamedGlobal(mod, "type:" \o getTypeCodeName(boxings[i].typ))
        /\ mod[boxings[i].typecode].init[2] = MethodSetGlobal(boxings[i].typ)
        /\ (mod[boxings[i].typecode].init[2] = Null) <=> (MethodSetOf(boxings[i].typ) = <<>>)

\* struct{ P Point } was boxed and then struct{ Point }: the two values hold
\* the same descriptor, whose method set is null, and the method set of
\* struct{ Point } is in the module.
C23_Witness ==
    /\ Len(boxings) = 2
    /\ boxings[1].typ = HoldsPoint
    /\ boxings[2].typ = EmbedsPoint
    /\ boxings[1].typecode = boxings[2].typecode
    /\ mod[boxings[2].typecode].init[2] = Null
    /\ MethodSetGlobal(EmbedsPoint) # Null

=============================================================================
